---- MODULE Spec2Model ----
(***************************************************************************)
(* A model of the discrete-time thalamus of                                *)
(* htmresearch/frameworks/thalamus/thalamus.py: three segment stores       *)
(* (L6->TRN, TRN->Relay, FeedForward->Relay), the learning calls that grow *)
(* them, and the two inference phases with their transient state.          *)
(*                                                                         *)
(* Conventions.  A coordinate is <<x, y>> (Python coord[0], coord[1]).     *)
(* Cell indices and segment ids are 0-based as in the code; segment id s   *)
(* is element s + 1 of a store.  Permanences and relay outputs are in      *)
(* tenths (1.0 is 10, 0.5 is 5).  A numpy array of shape (W, H) is a       *)
(* function over (0..W-1) \X (0..H-1); its flat view is row-major, so flat *)
(* entry i is position <<i \div H, i % H>>.                                *)
(***************************************************************************)
EXTENDS Integers, Sequences, FiniteSets, TLC

VARIABLES
  trnWidth, trnHeight,            \* shape of the TRN layer
  relayWidth, relayHeight,        \* shape of the relay layer
  inputWidth, inputHeight,        \* shape of the feed forward input layer
  l6CellCount,
  trnActivationThreshold,
  relayTRNSegmentThreshold,
  trnConnections,                 \* L6 -> TRN segment store
  relayTRNSegments,               \* TRN -> Relay segment store
  relayFFSegments,                \* FeedForward -> Relay segment store
  trnOverlaps,
  activeTRNSegments,
  activeTRNCellIndices,
  relayTRNSegmentOverlaps,
  activeRelaySegments,
  burstReadyCellIndices,
  burstReadyCells,                \* the burst-ready mask, shape (relayWidth, relayHeight)
  ffDefined,                      \* whether self.ffOverlaps / self.activeFFSegments exist yet
  ffOverlaps,
  activeFFSegments,
  lastCall,                       \* the latest call: its name, arguments, result and error
  trnLearned,                     \* history: one entry per coordinate passed to learnL6Pattern
  relayLearned,                   \* history: one entry per coordinate passed to learnTRNPatternOnRelayCells
  run                             \* which run of a repeated call sequence this is, and the first run's record

shapeVars == <<trnWidth, trnHeight, relayWidth, relayHeight, inputWidth,
               inputHeight, l6CellCount>>
thresholdVars == <<trnActivationThreshold, relayTRNSegmentThreshold>>
storeVars == <<trnConnections, relayTRNSegments, relayFFSegments>>
phase1Vars == <<trnOverlaps, activeTRNSegments, activeTRNCellIndices,
                relayTRNSegmentOverlaps, activeRelaySegments,
                burstReadyCellIndices>>
phase2Vars == <<ffDefined, ffOverlaps, activeFFSegments>>
historyVars == <<trnLearned, relayLearned>>
\* Everything an instance holds, with the latest call and what it returned.
instanceVars == <<shapeVars, thresholdVars, storeVars, phase1Vars,
                  burstReadyCells, phase2Vars, lastCall>>
vars == <<shapeVars, thresholdVars, storeVars, phase1Vars, burstReadyCells,
          phase2Vars, lastCall, historyVars, run>>

(***************************************************************************)
(* Bounds and inputs of the model.                                         *)
(***************************************************************************)
\* The most segments a store may hold (learn calls beyond it are not taken).
MaxSegments == 2
\* The number of calls in a call sequence that is run twice.
MaxCallsPerRun == 4
\* The longest cellsToLearnOn list of one learn call.
MaxCellsPerCall == 2
\* Layer width and height built by the constructor (all three layers alike).
GridWidth == 2
GridHeight == 2
\* Number of L6 cells built by the constructor.
L6Cells == 4
\* Width and height of the layers trainThalamus is run on.
TrainedGridSize == 3
\* The largest width and height the index mappings are tried on.
MaxIndexedSize == 3

PermOne == 10          \* the permanence 1.0 given to every grown synapse
ConnectedPerm == 5     \* the connected permanence 0.5 of every computeActivity call
FFThreshold == 1       \* the literal 1 of activeFFSegments
BurstUnit == 10        \* the mask value 1.0 in tenths
WindowSize == 1        \* the windowSize trainThalamus is called with
DefaultTonicLevel == 4 \* the default tonicLevel=0.4, in tenths

Range(s) == {s[k] : k \in DOMAIN s}

RECURSIVE SortedSeq(_)
\* The elements of a finite set of integers in increasing order.
SortedSeq(S) ==
  IF S = {} THEN <<>>
  ELSE LET m == CHOOSE x \in S : \A y \in S : x <= y
       IN  <<m>> \o SortedSeq(S \ {m})

\* The non-empty sequences over S of length at most n.
SeqsUpTo(S, n) == UNION {[1..k -> S] : k \in 1..n}

(***************************************************************************)
(* The segment store (SparseMatrixConnections of nupic.bindings.math).     *)
(* A store is the sequence of its segments in creation order; a segment is *)
(* [cell |-> owning cell index, syn |-> set of <<presynaptic index,        *)
(* permanence>>].                                                          *)
(***************************************************************************)
\* The ids createSegments gives the new segments: the next free ordinals.
NewSegmentIds(store, cellIndices) ==
  [k \in 1..Len(cellIndices) |-> Len(store) + k - 1]

\* The store after createSegments(cellIndices): one empty segment per entry.
createSegments(store, cellIndices) ==
  store \o [k \in 1..Len(cellIndices) |-> [cell |-> cellIndices[k], syn |-> {}]]

\* The store after growSynapses(segments, inputs, permanence): every listed
\* segment gets a synapse to every input it has none to yet.
growSynapses(store, segments, inputs, permanence) ==
  [i \in 1..Len(store) |->
     IF (i - 1) \in Range(segments)
     THEN [store[i] EXCEPT !.syn =
             @ \cup {<<p, permanence>> :
                       p \in {q \in inputs : \A s \in store[i].syn : s[1] # q}}]
     ELSE store[i]]

\* computeActivity(activeInputs, connectedPermanence): per segment, the number
\* of its synapses onto an active input with permanence at least the threshold.
computeActivity(store, activeInputs, connectedPermanence) ==
  [i \in 1..Len(store) |->
     Cardinality({s \in store[i].syn :
                    s[1] \in activeInputs /\ s[2] >= connectedPermanence})]

\* mapSegmentsToCells(segments): the owning cell of each listed segment.
mapSegmentsToCells(store, segments) ==
  [k \in 1..Len(segments) |-> store[segments[k] + 1].cell]

nSegments(store) == Len(store)

\* getSegmentCounts for one cell.
getSegmentCount(store, cell) ==
  Cardinality({i \in 1..Len(store) : store[i].cell = cell})

\* The presynaptic indices of a segment (the non-zeros of its matrix row).
rowNonZeros(store, segment) == {s[1] : s \in store[segment + 1].syn}

(***************************************************************************)
(* Coordinate indexing.                                                    *)
(***************************************************************************)
\* A variant of trnCellIndex with x and y exchanged.
trnCellIndex_Swapped(coord) == coord[1] * trnWidth + coord[2]

trnCellIndex(coord) == coord[2] * trnWidth + coord[1]

relayCellIndex(coord) == coord[2] * relayWidth + coord[1]

\* A variant of ffCellIndex with x and y exchanged.
ffCellIndex_Swapped(coord) == coord[1] * inputWidth + coord[2]

ffCellIndex(coord) == coord[2] * inputWidth + coord[1]

(***************************************************************************)
(* The index-to-coordinate mappings compute y = i / width with Python's    *)
(* "/".  The module imports print_function from __future__ and not         *)
(* division, and nothing in the source fixes the interpreter: on integers  *)
(* "/" is floor division when the module is run by Python 2 (the           *)
(* interpreter the nupic package it imports was released for) and true     *)
(* division, with a float result, when it is run by Python 3.  Which of    *)
(* the two a call performs is a choice of the environment.  A quotient is  *)
(* the record [n, d] of a numerator and a denominator:                     *)
(* [i \div width, 1], an integer, for floor division and [i, width], the   *)
(* float i / width, for true division.                                     *)
(***************************************************************************)
PythonDivisions == {"floor", "true"}

\* i / width
PyDiv(i, width, division) ==
  IF division = "floor" THEN [n |-> i \div width, d |-> 1]
  ELSE [n |-> i, d |-> width]

\* A variant of trnIndextoCoord that divides by the height of the layer.
trnIndextoCoord_ByHeight(i, division) ==
  <<i % trnHeight, PyDiv(i, trnHeight, division)>>

\* x = i % self.trnWidth; y = i / self.trnWidth; return x, y
trnIndextoCoord(i, division) == <<i % trnWidth, PyDiv(i, trnWidth, division)>>

relayIndextoCoord(i, division) ==
  <<i % relayWidth, PyDiv(i, relayWidth, division)>>

ffIndextoCoord(i, division) == <<i % inputWidth, PyDiv(i, inputWidth, division)>>

\* coord[1] * width + coord[0] for a coordinate whose y is a quotient.
IndexOfQuotientCoord(coord, width) ==
  [n |-> coord[2].n * width + coord[1] * coord[2].d, d |-> coord[2].d]

TRNCoords == (0..(trnWidth - 1)) \X (0..(trnHeight - 1))
RelayCoords == (0..(relayWidth - 1)) \X (0..(relayHeight - 1))
FFCoords == (0..(inputWidth - 1)) \X (0..(inputHeight - 1))

\* The positions of a numpy array of the relay layer's shape.
RelayPositions == (0..(relayWidth - 1)) \X (0..(relayHeight - 1))

Max(a, b) == IF a >= b THEN a ELSE b
Min(a, b) == IF a <= b THEN a ELSE b

\* _preSynapticFFCells(i, j): the feed forward input cells that project to the
\* relay cell at (i, j), a 3x3 fan-in clipped to the input layer.
preSynapticFFCells(i, j) ==
  (Max(i - 1, 0)..(Min(i + 2, inputWidth) - 1)) \X
  (Max(j - 1, 0)..(Min(j + 2, inputHeight) - 1))

\* [(x, y) for x in range(xmin, xmax) for y in range(ymin, ymax)]: the list
\* runs through x in the outer loop and y in the inner one.
CoordList(xmin, xmax, ymin, ymax) ==
  LET nx == Max(xmax - xmin, 0)
      ny == Max(ymax - ymin, 0)
  IN  [k \in 1..(nx * ny) |-> <<xmin + ((k - 1) \div ny), ymin + ((k - 1) % ny)>>]

\* A variant of preSynapticTRNCells with xmax = min(i + 1, trnWidth).
preSynapticTRNCells_UpToI(i, j) ==
  CoordList(Max(i - 1, 0), Min(i + 1, trnWidth),
            Max(j - 1, 0), Min(j + 2, trnHeight))

\* _preSynapticTRNCells(i, j): the list of the TRN cells that project to the
\* relay cell at (i, j).
preSynapticTRNCells(i, j) ==
  CoordList(Max(i - 1, 0), Min(i + 2, trnWidth),
            Max(j - 1, 0), Min(j + 2, trnHeight))

\* _preSynapticFFCells(i, j), as the list the method returns.
preSynapticFFCellList(i, j) ==
  CoordList(Max(i - 1, 0), Min(i + 2, inputWidth),
            Max(j - 1, 0), Min(j + 2, inputHeight))

(***************************************************************************)
(* numpy helpers.                                                          *)
(***************************************************************************)
\* A variant of FlatNonzeroGE that selects the entries equal to the threshold.
FlatNonzeroEQ(overlaps, threshold) ==
  SortedSeq({i - 1 : i \in {j \in DOMAIN overlaps : overlaps[j] = threshold}})

\* np.flatnonzero(overlaps >= threshold): the 0-based positions, increasing.
FlatNonzeroGE(overlaps, threshold) ==
  SortedSeq({i - 1 : i \in {j \in DOMAIN overlaps : overlaps[j] >= threshold}})

\* np.zeros((relayWidth, relayHeight))
ZeroMask == [p \in RelayPositions |-> 0]

\* mask.reshape(-1)[i]: entry i of the row-major flat view.
FlatEntry(mask, i) == mask[<<i \div relayHeight, i % relayHeight>>]

\* The relay cells whose entry of the flat mask is not 0.
MaskCells ==
  {i \in 0..(relayWidth * relayHeight - 1) : FlatEntry(burstReadyCells, i) # 0}

\* mask.reshape(-1)[indices] = 1
SetFlatEntries(mask, indices) ==
  [p \in DOMAIN mask |->
     IF (p[1] * relayHeight + p[2]) \in Range(indices) THEN 1 ELSE mask[p]]

\* ff.nonzero(): the row indices and the column indices of the non-zero
\* entries, both in row-major order of the entries.
NonzeroFlat(ff) ==
  SortedSeq({p[1] * relayHeight + p[2] : p \in {q \in DOMAIN ff : ff[q] # 0}})
NonzeroRows(ff) ==
  [k \in 1..Len(NonzeroFlat(ff)) |-> NonzeroFlat(ff)[k] \div relayHeight]
NonzeroCols(ff) ==
  [k \in 1..Len(NonzeroFlat(ff)) |-> NonzeroFlat(ff)[k] % relayHeight]

\* ff * tonicLevel + burstReadyCells * ff, in tenths.
RelayOutput(ff, mask, tonicLevel) ==
  [p \in DOMAIN ff |-> ff[p] * tonicLevel + mask[p] * ff[p] * BurstUnit]

(***************************************************************************)
(* The record of the latest call.                                          *)
(***************************************************************************)
NoCall ==
  [op |-> "init", l6 |-> {}, cells |-> <<>>, sdr |-> {}, ffCoord |-> <<>>,
   ff |-> <<>>, ffAfter |-> <<>>, tonic |-> 0, thresholds |-> <<>>,
   index |-> <<>>,
   division |-> "none", retCells |-> <<>>, retGrid |-> <<>>,
   retCoord |-> <<>>, err |-> "none"]

(***************************************************************************)
(* Thalamus.__init__ and Thalamus.reset                                    *)
(***************************************************************************)
\* The state the constructor leaves for layers of shape (w, h), n L6 cells
\* and the two thresholds.
Construct(w, h, n, trnThreshold, relayThreshold) ==
  /\ trnWidth = w /\ trnHeight = h
  /\ relayWidth = w /\ relayHeight = h
  /\ inputWidth = w /\ inputHeight = h
  /\ l6CellCount = n
  /\ trnActivationThreshold = trnThreshold
  /\ relayTRNSegmentThreshold = relayThreshold
  /\ trnConnections = <<>>
  /\ relayTRNSegments = <<>>
  /\ relayFFSegments = <<>>
  /\ trnOverlaps = <<>>
  /\ activeTRNSegments = <<>>
  /\ activeTRNCellIndices = <<>>
  /\ relayTRNSegmentOverlaps = <<>>
  /\ activeRelaySegments = <<>>
  /\ burstReadyCellIndices = <<>>
  /\ burstReadyCells = [p \in (0..(w - 1)) \X (0..(h - 1)) |-> 0]
  /\ ffDefined = FALSE
  /\ ffOverlaps = <<>>
  /\ activeFFSegments = <<>>
  /\ lastCall = NoCall
  /\ trnLearned = <<>>
  /\ relayLearned = <<>>

\* A variant of reset that leaves the burst-ready mask as it is.
reset_KeepingMask ==
  /\ trnOverlaps' = <<>>
  /\ activeTRNSegments' = <<>>
  /\ activeTRNCellIndices' = <<>>
  /\ relayTRNSegmentOverlaps' = <<>>
  /\ activeRelaySegments' = <<>>
  /\ burstReadyCellIndices' = <<>>
  /\ lastCall' = [NoCall EXCEPT !.op = "reset"]
  /\ UNCHANGED <<shapeVars, thresholdVars, storeVars, burstReadyCells,
                 phase2Vars, historyVars>>

\* A variant of reset that also empties the three segment stores.
reset_EmptyingStores ==
  /\ trnOverlaps' = <<>>
  /\ activeTRNSegments' = <<>>
  /\ activeTRNCellIndices' = <<>>
  /\ relayTRNSegmentOverlaps' = <<>>
  /\ activeRelaySegments' = <<>>
  /\ burstReadyCellIndices' = <<>>
  /\ burstReadyCells' = ZeroMask
  /\ trnConnections' = <<>>
  /\ relayTRNSegments' = <<>>
  /\ relayFFSegments' = <<>>
  /\ lastCall' = [NoCall EXCEPT !.op = "reset"]
  /\ UNCHANGED <<shapeVars, thresholdVars, phase2Vars, historyVars>>

reset ==
  /\ trnOverlaps' = <<>>
  /\ activeTRNSegments' = <<>>
  /\ activeTRNCellIndices' = <<>>
  /\ relayTRNSegmentOverlaps' = <<>>
  /\ activeRelaySegments' = <<>>
  /\ burstReadyCellIndices' = <<>>
  /\ burstReadyCells' = ZeroMask
  /\ lastCall' = [NoCall EXCEPT !.op = "reset"]
  /\ UNCHANGED <<shapeVars, thresholdVars, storeVars, phase2Vars, historyVars>>

(***************************************************************************)
(* t.setThresholds(trnThreshold, relayThreshold), as thalamus_test.py      *)
(* calls it.  The class Thalamus defines no attribute of that name, so the *)
(* attribute lookup raises AttributeError and no field is touched.         *)
(***************************************************************************)
setThresholds(trnThreshold, relayThreshold) ==
  /\ lastCall' = [NoCall EXCEPT !.op = "setThresholds",
                                !.thresholds = <<trnThreshold, relayThreshold>>,
                                !.err = "AttributeError"]
  /\ UNCHANGED <<shapeVars, thresholdVars, storeVars, phase1Vars,
                 burstReadyCells, phase2Vars, historyVars>>

(***************************************************************************)
(* Thalamus.learnL6Pattern                                                 *)
(***************************************************************************)
\* cellIndices = [self.trnCellIndex(x) for x in cellsToLearnOn]
trnCellIndices(cellsToLearnOn) ==
  [k \in 1..Len(cellsToLearnOn) |-> trnCellIndex(cellsToLearnOn[k])]

\* A variant of LearnOnNewSegments that learns once per distinct cell.
LearnOnDistinctCells(store, pattern, cellIndices) ==
  growSynapses(createSegments(store, SortedSeq(Range(cellIndices))),
               NewSegmentIds(store, SortedSeq(Range(cellIndices))),
               pattern, PermOne)

\* A variant of LearnOnNewSegments that grows the pattern on every segment
\* of the store.
LearnOnAllSegments(store, pattern, cellIndices) ==
  growSynapses(createSegments(store, cellIndices),
               [k \in 1..(Len(store) + Len(cellIndices)) |-> k - 1],
               pattern, PermOne)

\* createSegments(cellIndices), then growSynapses(newSegments, pattern, 1.0)
LearnOnNewSegments(store, pattern, cellIndices) ==
  growSynapses(createSegments(store, cellIndices),
               NewSegmentIds(store, cellIndices), pattern, PermOne)

learnL6Pattern(l6Pattern, cellsToLearnOn) ==
  LET cellIndices == trnCellIndices(cellsToLearnOn)
  IN  /\ trnConnections' = LearnOnNewSegments(trnConnections, l6Pattern, cellIndices)
      /\ trnLearned' = trnLearned \o
           [k \in 1..Len(cellsToLearnOn) |->
              [coord |-> cellsToLearnOn[k], l6 |-> l6Pattern]]
      /\ lastCall' = [NoCall EXCEPT !.op = "learnL6Pattern", !.l6 = l6Pattern,
                                    !.cells = cellsToLearnOn,
                                    !.retCells = cellIndices]
      /\ UNCHANGED <<shapeVars, thresholdVars, relayTRNSegments, relayFFSegments,
                     phase1Vars, burstReadyCells, phase2Vars, relayLearned>>

(***************************************************************************)
(* Thalamus.learnTRNPatternOnRelayCells                                    *)
(***************************************************************************)
\* cellIndices = [self.relayCellIndex(x) for x in cellsToLearnOn]
relayCellIndices(cellsToLearnOn) ==
  [k \in 1..Len(cellsToLearnOn) |-> relayCellIndex(cellsToLearnOn[k])]

\* newTRNSegments = self.relayTRNSegments.createSegments(cellIndices)
NewTRNSegments(cellIndices) == NewSegmentIds(relayTRNSegments, cellIndices)

\* A variant of NewFFSegments that creates the segments in the L6->TRN store.
NewFFSegments_InTRNStore(cellIndices) == NewSegmentIds(trnConnections, cellIndices)

\* newFFSegments = self.relayFFSegments.createSegments(cellIndices)
NewFFSegments(cellIndices) == NewSegmentIds(relayFFSegments, cellIndices)

\* ffIndex = [self.ffCellIndex(ffCoord)]
FFIndex(ffCoord) == {ffCellIndex(ffCoord)}

learnTRNPatternOnRelayCells(trnSDRIndices, ffCoord, cellsToLearnOn) ==
  LET cellIndices == relayCellIndices(cellsToLearnOn)
      newTRNSegments == NewTRNSegments(cellIndices)
      newFFSegments == NewFFSegments(cellIndices)
      paired == newFFSegments = newTRNSegments
  IN  /\ relayTRNSegments' =
           IF paired
           THEN growSynapses(createSegments(relayTRNSegments, cellIndices),
                             newTRNSegments, trnSDRIndices, PermOne)
           ELSE createSegments(relayTRNSegments, cellIndices)
      /\ relayFFSegments' =
           IF paired
           THEN growSynapses(createSegments(relayFFSegments, cellIndices),
                             newFFSegments, FFIndex(ffCoord), PermOne)
           ELSE createSegments(relayFFSegments, cellIndices)
      /\ relayLearned' = relayLearned \o
           [k \in 1..Len(cellsToLearnOn) |->
              [coord |-> cellsToLearnOn[k], sdr |-> trnSDRIndices,
               ffCoord |-> ffCoord, trnSegment |-> newTRNSegments[k],
               ffSegment |-> newFFSegments[k]]]
      /\ lastCall' = [NoCall EXCEPT !.op = "learnTRNPatternOnRelayCells",
                                    !.sdr = trnSDRIndices, !.ffCoord = ffCoord,
                                    !.cells = cellsToLearnOn,
                                    !.retCells = IF paired THEN cellIndices ELSE <<>>,
                                    !.err = IF paired THEN "none" ELSE "AssertionError"]
      /\ UNCHANGED <<shapeVars, thresholdVars, trnConnections, phase1Vars,
                     burstReadyCells, phase2Vars, trnLearned>>

(***************************************************************************)
(* Thalamus._initializeTRNToRelayCellConnections                           *)
(***************************************************************************)
\* A variant of GrowOneDendrite that keeps one segment per relay cell and
\* grows the synapse on it.
GrowOneDendrite_OnCellSegment(store, relayCell, trnCell) ==
  IF \E i \in DOMAIN store : store[i].cell = relayCell
  THEN growSynapses(store,
         <<(CHOOSE i \in DOMAIN store : store[i].cell = relayCell) - 1>>,
         {trnCell}, PermOne)
  ELSE growSynapses(createSegments(store, <<relayCell>>),
                    NewSegmentIds(store, <<relayCell>>), {trnCell}, PermOne)

\* newSegment = self.relayTRNSegments.createSegments([relayCellIndex])
\* self.relayTRNSegments.growSynapses(newSegment,
\*                                    [self.trnCellIndex(trnCell)], 1.0)
GrowOneDendrite(store, relayCell, trnCell) ==
  growSynapses(createSegments(store, <<relayCell>>),
               NewSegmentIds(store, <<relayCell>>), {trnCell}, PermOne)

\* The (x, y) of the n-th relay cell the loops
\*   for x in range(self.relayWidth): for y in range(self.relayHeight):
\* visit, n counted from 0.
LoopCoord(n) == <<n \div relayHeight, n % relayHeight>>

\* trnCells = self._preSynapticTRNCells(x, y), for the n-th relay cell
LoopTRNCells(n) == preSynapticTRNCells(LoopCoord(n)[1], LoopCoord(n)[2])

RECURSIVE GrowDendrites(_, _)
\* for trnCell in trnCells: the segments the first m passes for the n-th
\* relay cell append.  createSegments appends and growSynapses changes the
\* segments it is given only, so they are the segments the same passes
\* append to an empty store.
GrowDendrites(n, m) ==
  IF m = 0 THEN <<>>
  ELSE GrowOneDendrite(GrowDendrites(n, m - 1), relayCellIndex(LoopCoord(n)),
                       trnCellIndex(LoopTRNCells(n)[m]))

RECURSIVE DendritesFrom(_)
\* The segments appended for the n-th relay cell and those after it, in the
\* order of the two outer loops.
DendritesFrom(n) ==
  IF n >= relayWidth * relayHeight THEN <<>>
  ELSE GrowDendrites(n, Len(LoopTRNCells(n))) \o DendritesFrom(n + 1)

\* The store after the three loops have run to their end.
ConnectRelayCells(store) == store \o DendritesFrom(0)

initializeTRNToRelayCellConnections ==
  /\ relayTRNSegments' = ConnectRelayCells(relayTRNSegments)
  /\ lastCall' = [NoCall EXCEPT !.op = "_initializeTRNToRelayCellConnections"]
  /\ UNCHANGED <<shapeVars, thresholdVars, trnConnections, relayFFSegments,
                 phase1Vars, burstReadyCells, phase2Vars, historyVars>>

(***************************************************************************)
(* Thalamus.deInactivateCells                                              *)
(***************************************************************************)
\* A variant of ActiveTRNSegments that asks for more than the threshold.
ActiveTRNSegments_Strict(overlaps) ==
  FlatNonzeroGE(overlaps, trnActivationThreshold + 1)

\* np.flatnonzero(self.trnOverlaps >= self.trnActivationThreshold)
ActiveTRNSegments(overlaps) == FlatNonzeroGE(overlaps, trnActivationThreshold)

\* A variant of ActiveRelaySegments that asks for more than the threshold.
ActiveRelaySegments_Strict(overlaps) ==
  FlatNonzeroGE(overlaps, relayTRNSegmentThreshold + 1)

\* np.flatnonzero(self.relayTRNSegmentOverlaps >= self.relayTRNSegmentThreshold)
ActiveRelaySegments(overlaps) == FlatNonzeroGE(overlaps, relayTRNSegmentThreshold)

\* A variant of MarkBurstReady that marks cells in an all-zero mask only.
MarkBurstReady_WhenUnmarked(mask, cellIndices) ==
  IF mask = ZeroMask THEN SetFlatEntries(mask, cellIndices) ELSE mask

\* A variant of MarkBurstReady that counts the listings of a cell.
MarkBurstReady_Counting(mask, cellIndices) ==
  [p \in DOMAIN mask |->
     mask[p] + Cardinality({k \in DOMAIN cellIndices :
                              cellIndices[k] = p[1] * relayHeight + p[2]})]

\* A variant of MarkBurstReady that starts from a zeroed mask.
MarkBurstReady_Fresh(mask, cellIndices) == SetFlatEntries(ZeroMask, cellIndices)

\* self.burstReadyCells.reshape(-1)[self.burstReadyCellIndices] = 1
MarkBurstReady(mask, cellIndices) == SetFlatEntries(mask, cellIndices)

deInactivateCells(l6Input) ==
  LET overlaps == computeActivity(trnConnections, l6Input, ConnectedPerm)
      trnSegments == ActiveTRNSegments(overlaps)
      trnCells == mapSegmentsToCells(trnConnections, trnSegments)
      relayOverlaps == computeActivity(relayTRNSegments, Range(trnCells),
                                       ConnectedPerm)
      relaySegments == ActiveRelaySegments(relayOverlaps)
      relayCells == mapSegmentsToCells(relayTRNSegments, relaySegments)
  IN  /\ trnOverlaps' = overlaps
      /\ activeTRNSegments' = trnSegments
      /\ activeTRNCellIndices' = trnCells
      /\ relayTRNSegmentOverlaps' = relayOverlaps
      /\ activeRelaySegments' = relaySegments
      /\ burstReadyCellIndices' = relayCells
      /\ burstReadyCells' = MarkBurstReady(burstReadyCells, relayCells)
      /\ lastCall' = [NoCall EXCEPT !.op = "deInactivateCells", !.l6 = l6Input]
      /\ UNCHANGED <<shapeVars, thresholdVars, storeVars, phase2Vars, historyVars>>

\* Phase 1 as a function of the input and the two thresholds, the learned
\* state being the current one: the list activeTRNCellIndices ...
ActiveTRNCellsAt(l6Input, trnThreshold) ==
  mapSegmentsToCells(trnConnections,
    FlatNonzeroGE(computeActivity(trnConnections, l6Input, ConnectedPerm),
                  trnThreshold))

\* ... and the list burstReadyCellIndices.
BurstReadyCellsAt(l6Input, trnThreshold, relayThreshold) ==
  mapSegmentsToCells(relayTRNSegments,
    FlatNonzeroGE(computeActivity(relayTRNSegments,
                                  Range(ActiveTRNCellsAt(l6Input, trnThreshold)),
                                  ConnectedPerm),
                  relayThreshold))

(***************************************************************************)
(* Thalamus.computeFeedForwardActivity                                     *)
(***************************************************************************)
\* ffindices = [self.ffCellIndex(c) for c in ffLocations], where ffLocations
\* = ff.nonzero() is the pair (row indices, column indices): one index is
\* computed from the first two row indices, one from the first two column
\* indices.
FFIndices(ff) == <<ffCellIndex(NonzeroRows(ff)), ffCellIndex(NonzeroCols(ff))>>

\* c[1] of an array c with fewer than two entries raises IndexError.
FFIndicesRaise(ff) == Len(NonzeroFlat(ff)) < 2

\* np.flatnonzero(self.ffOverlaps >= 1)
ActiveFFSegments(overlaps) == FlatNonzeroGE(overlaps, FFThreshold)

\* A variant of FeedForwardOutput that adds the mask itself, not mask * ff.
FeedForwardOutput_MaskAdded(ff, tonicLevel) ==
  [p \in DOMAIN ff |-> ff[p] * tonicLevel + burstReadyCells[p] * BurstUnit]

\* ff2 = ff * tonicLevel + self.burstReadyCells * ff
FeedForwardOutput(ff, tonicLevel) == RelayOutput(ff, burstReadyCells, tonicLevel)

\* A variant of InputAfterCall that does what the docstring announces:
\* "feedForwardInput is modified to contain 0, 1, or 2. A "2" indicates
\* bursting cells."
InputAfterCall_AsDocumented(feedForwardInput, tonicLevel) ==
  [p \in DOMAIN feedForwardInput |->
     feedForwardInput[p] + burstReadyCells[p] * feedForwardInput[p]]

\* A variant of InputAfterCall in which the call works on the caller's array.
InputAfterCall_InPlace(feedForwardInput, tonicLevel) ==
  FeedForwardOutput(feedForwardInput, tonicLevel)

\* ff = feedForwardInput.copy(): the call works on a copy, so the caller's
\* array holds after the call what it held before.
InputAfterCall(feedForwardInput, tonicLevel) == feedForwardInput

computeFeedForwardActivity(feedForwardInput, tonicLevel) ==
  LET call == [NoCall EXCEPT !.op = "computeFeedForwardActivity",
                             !.ff = feedForwardInput, !.tonic = tonicLevel,
                             !.ffAfter = InputAfterCall(feedForwardInput,
                                                        tonicLevel)]
  IN  IF FFIndicesRaise(feedForwardInput)
      THEN /\ lastCall' = [call EXCEPT !.err = "IndexError"]
           /\ UNCHANGED <<shapeVars, thresholdVars, storeVars, phase1Vars,
                          burstReadyCells, phase2Vars, historyVars>>
      ELSE LET overlaps == computeActivity(relayFFSegments,
                                           Range(FFIndices(feedForwardInput)),
                                           ConnectedPerm)
           IN  /\ ffDefined' = TRUE
               /\ ffOverlaps' = overlaps
               /\ activeFFSegments' = ActiveFFSegments(overlaps)
               /\ lastCall' = [call EXCEPT !.retGrid =
                                 FeedForwardOutput(feedForwardInput, tonicLevel)]
               /\ UNCHANGED <<shapeVars, thresholdVars, storeVars, phase1Vars,
                              burstReadyCells, historyVars>>

(***************************************************************************)
(* The inputs the calls are tried with.                                    *)
(***************************************************************************)
\* L6 SDRs to learn: two disjoint patterns
L6Patterns == {{0, 1}, {2, 3}}
\* L6 SDRs to present: they share 2, 1 or 0 bits with a learned pattern
L6Inputs == {{0, 1}, {1, 2, 3}}
\* coordinates to learn on (off the diagonal, so that x and y differ)
LearnCoords == {<<1, 0>>, <<0, 1>>}
CellLists == SeqsUpTo(LearnCoords, MaxCellsPerCall)
\* TRN SDRs to learn on relay cells: indices of the TRN cells of LearnCoords
TRNSDRs == {{1}, {1, 2}}
\* feed forward coordinates to associate
FFLearnCoords == {<<1, 0>>}
\* binary feed forward inputs of the relay layer's shape, by their active
\* positions: one with a single active entry, two with two
FFActiveSets == {{<<0, 1>>}, {<<0, 0>>, <<1, 0>>}, {<<0, 1>>, <<1, 1>>}}
FFGrids ==
  {[p \in RelayPositions |-> IF p \in A THEN 1 ELSE 0] : A \in FFActiveSets}
\* tonic levels 0.4 (the default) and 0.5, in tenths
TonicLevels == {4, 5}
\* the (trnThreshold, relayThreshold) pairs the constructor is given
ThresholdPairs == {<<2, 1>>}
\* the (trnThreshold, relayThreshold) pairs setThresholds is called with
NewThresholdPairs == {<<1, 1>>}

\* A single instance: no call sequence is being repeated.
SingleRun == [phase |-> "single", steps |-> <<>>, done |-> 0]

Init ==
  /\ \E t \in ThresholdPairs :
       Construct(GridWidth, GridHeight, L6Cells, t[1], t[2])
  /\ run = SingleRun

\* A store has room for n more segments.
HasRoom(store, n) == Len(store) + n <= MaxSegments

Next ==
  \/ \E p \in L6Patterns, cells \in CellLists :
       /\ HasRoom(trnConnections, Len(cells))
       /\ learnL6Pattern(p, cells)
       /\ UNCHANGED run
  \/ \E sdr \in TRNSDRs, c \in FFLearnCoords, cells \in CellLists :
       /\ HasRoom(relayTRNSegments, Len(cells))
       /\ HasRoom(relayFFSegments, Len(cells))
       /\ learnTRNPatternOnRelayCells(sdr, c, cells)
       /\ UNCHANGED run
  \/ \E l6Input \in L6Inputs : deInactivateCells(l6Input) /\ UNCHANGED run
  \/ \E ff \in FFGrids, tonicLevel \in TonicLevels :
       computeFeedForwardActivity(ff, tonicLevel) /\ UNCHANGED run
  \/ reset /\ UNCHANGED run
  \/ \E t \in NewThresholdPairs : setThresholds(t[1], t[2]) /\ UNCHANGED run

Spec == Init /\ [][Next]_vars

(***************************************************************************)
(* Training two location patterns and then inferring, the way              *)
(* ThalamusTest.testDeinactivateCells does: an L6 pattern is learned on    *)
(* some TRN cells, the returned TRN SDR is learned on some relay cells,    *)
(* the same is done for a second L6 pattern, and then reset and            *)
(* deInactivateCells are called in any order.                              *)
(***************************************************************************)
\* The L6 patterns learned so far.
PatternsLearned == {trnLearned[k].l6 : k \in DOMAIN trnLearned}

\* L6 patterns of the training: two are disjoint, one overlaps both.
TrainPatterns == {{0, 1}, {2, 3}, {1, 2}}
\* cellsToLearnOn lists of the training
TrainTRNLists ==
  {<<(<<0, 0>>), (<<1, 0>>)>>, <<(<<0, 1>>), (<<1, 1>>)>>,
   <<(<<1, 0>>), (<<0, 1>>)>>, <<(<<1, 1>>), (<<1, 1>>)>>}
TrainRelayLists ==
  {<<(<<1, 0>>)>>, <<(<<0, 1>>), (<<1, 1>>)>>, <<(<<1, 0>>), (<<0, 0>>)>>}
TrainThresholdPairs == {<<1, 1>>, <<2, 1>>, <<1, 2>>, <<2, 2>>}
\* the thresholds two runs are compared at
ComparedThresholds == 1..3

InitTrain ==
  /\ \E t \in TrainThresholdPairs :
       Construct(GridWidth, GridHeight, L6Cells, t[1], t[2])
  /\ run = SingleRun

\* Both patterns and their TRN SDRs have been learned.
Trained ==
  \/ /\ lastCall.op = "learnTRNPatternOnRelayCells"
     /\ Cardinality(PatternsLearned) = 2
  \/ lastCall.op \in {"reset", "deInactivateCells"}

NextTrain ==
  \/ /\ \/ lastCall.op = "init"
        \/ /\ lastCall.op = "learnTRNPatternOnRelayCells"
           /\ Cardinality(PatternsLearned) < 2
     /\ \E p \in TrainPatterns \ PatternsLearned, cells \in TrainTRNLists :
          learnL6Pattern(p, cells)
     /\ UNCHANGED run
  \/ /\ lastCall.op = "learnL6Pattern"
     /\ \E c \in FFLearnCoords, cells \in TrainRelayLists :
          learnTRNPatternOnRelayCells(Range(lastCall.retCells), c, cells)
     /\ UNCHANGED run
  \/ Trained /\ reset /\ UNCHANGED run
  \/ /\ Trained
     /\ \E l6Input \in PatternsLearned : deInactivateCells(l6Input)
     /\ UNCHANGED run

SpecTrain == InitTrain /\ [][NextTrain]_vars

(***************************************************************************)
(* One call sequence run on two instances.  A first instance is driven by  *)
(* up to MaxCallsPerRun calls; what it holds and returns after each call   *)
(* is recorded, together with the array the caller passed as the call left *)
(* it.  Then a second instance is built with the same construction         *)
(* parameters and driven by the same calls in the same order: the caller   *)
(* passes the objects the first instance was passed, so a grid is the      *)
(* array as the first instance's call left it.  Nothing else outlives the  *)
(* first run: the constructor creates the three stores and, through        *)
(* reset, the transient fields and the mask of each instance, and the      *)
(* generator self.rng is seeded from the construction parameter seed.      *)
(***************************************************************************)
\* the inputs of the repeated calls
TwiceCellLists == {<<(<<0, 1>>)>>, <<(<<1, 0>>), (<<1, 0>>)>>}
TwiceTRNSDRs == {{1, 2}}
TwiceTonicLevels == {5}

InitTwice ==
  /\ \E t \in ThresholdPairs :
       Construct(GridWidth, GridHeight, L6Cells, t[1], t[2])
  /\ run = [phase |-> "first", steps |-> <<>>, done |-> 0]

\* Any one public call.
Call ==
  \/ \E p \in L6Patterns, cells \in TwiceCellLists :
       /\ HasRoom(trnConnections, Len(cells))
       /\ learnL6Pattern(p, cells)
  \/ \E sdr \in TwiceTRNSDRs, c \in FFLearnCoords, cells \in TwiceCellLists :
       /\ HasRoom(relayTRNSegments, Len(cells))
       /\ HasRoom(relayFFSegments, Len(cells))
       /\ learnTRNPatternOnRelayCells(sdr, c, cells)
  \/ \E l6Input \in L6Inputs : deInactivateCells(l6Input)
  \/ \E ff \in FFGrids, tonicLevel \in TwiceTonicLevels :
       computeFeedForwardActivity(ff, tonicLevel)
  \/ reset
  \/ \E t \in NewThresholdPairs : setThresholds(t[1], t[2])

\* The first instance makes a call, which is recorded with its outcome.
FirstRunCall ==
  /\ run.phase = "first"
  /\ Len(run.steps) < MaxCallsPerRun
  /\ Call
  /\ run' = [run EXCEPT !.steps = Append(@, [call |-> lastCall',
                                             after |-> instanceVars'])]

\* A second instance is constructed with the first one's parameters.
SecondInstance ==
  /\ run.phase = "first"
  /\ run.steps # <<>>
  /\ run' = [run EXCEPT !.phase = "second"]
  /\ UNCHANGED <<shapeVars, thresholdVars>>
  /\ trnConnections' = <<>>
  /\ relayTRNSegments' = <<>>
  /\ relayFFSegments' = <<>>
  /\ trnOverlaps' = <<>>
  /\ activeTRNSegments' = <<>>
  /\ activeTRNCellIndices' = <<>>
  /\ relayTRNSegmentOverlaps' = <<>>
  /\ activeRelaySegments' = <<>>
  /\ burstReadyCellIndices' = <<>>
  /\ burstReadyCells' = ZeroMask
  /\ ffDefined' = FALSE
  /\ ffOverlaps' = <<>>
  /\ activeFFSegments' = <<>>
  /\ lastCall' = NoCall
  /\ trnLearned' = <<>>
  /\ relayLearned' = <<>>

\* The recorded call made again, with the caller's objects: the grid is the
\* array the first instance was passed, as its call left it.
Replay(call) ==
  \/ /\ call.op = "learnL6Pattern"
     /\ learnL6Pattern(call.l6, call.cells)
  \/ /\ call.op = "learnTRNPatternOnRelayCells"
     /\ learnTRNPatternOnRelayCells(call.sdr, call.ffCoord, call.cells)
  \/ /\ call.op = "deInactivateCells"
     /\ deInactivateCells(call.l6)
  \/ /\ call.op = "computeFeedForwardActivity"
     /\ computeFeedForwardActivity(call.ffAfter, call.tonic)
  \/ /\ call.op = "reset"
     /\ reset
  \/ /\ call.op = "setThresholds"
     /\ setThresholds(call.thresholds[1], call.thresholds[2])

\* The second instance makes the next call of the record.
SecondRunCall ==
  /\ run.phase = "second"
  /\ run.done < Len(run.steps)
  /\ Replay(run.steps[run.done + 1].call)
  /\ run' = [run EXCEPT !.done = @ + 1]

NextTwice == FirstRunCall \/ SecondInstance \/ SecondRunCall

SpecTwice == InitTwice /\ [][NextTwice]_vars

(***************************************************************************)
(* Learning on coordinates outside the layers.  The coordinates tried are  *)
(* in bounds or have x = width or x = -1, with a linear index that is      *)
(* still the index of a cell of the layer.                                 *)
(***************************************************************************)
BoundsCellLists ==
  {<<(<<1, 0>>)>>, <<(<<GridWidth, 0>>)>>, <<(<<0, 1>>), (<<-1, 1>>)>>}
BoundsFFCoords == FFLearnCoords \cup {<<GridWidth, 0>>}

NextBounds ==
  \/ \E p \in L6Patterns, cells \in BoundsCellLists :
       /\ HasRoom(trnConnections, Len(cells))
       /\ learnL6Pattern(p, cells)
       /\ UNCHANGED run
  \/ \E sdr \in TwiceTRNSDRs, c \in BoundsFFCoords, cells \in BoundsCellLists :
       /\ HasRoom(relayTRNSegments, Len(cells))
       /\ HasRoom(relayFFSegments, Len(cells))
       /\ learnTRNPatternOnRelayCells(sdr, c, cells)
       /\ UNCHANGED run
  \/ \E l6Input \in L6Inputs : deInactivateCells(l6Input) /\ UNCHANGED run
  \/ reset /\ UNCHANGED run

SpecBounds == Init /\ [][NextBounds]_vars

(***************************************************************************)
(* trainThalamus(t, encoder, windowSize) of thalamus_utils.py, followed by *)
(* inference on trained locations as in ThalamusTest.testTrainThalamus.    *)
(* The location encoder is taken to give location number k (row by row)    *)
(* the L6 SDR {k, k + 1}: two bits, of which a location shares one with    *)
(* the location before it and one with the location after it.              *)
(***************************************************************************)
\* encodeLocation(encoder, wx, wy, output)
LocationSDR(wx, wy) == {wy * trnWidth + wx, wy * trnWidth + wx + 1}

\* The coordinates appended by
\*   for x in range(wx - windowSize, wx + windowSize):
\*     for y in range(wy - windowSize, wy + windowSize):
\*       if x >= 0 and x < t.trnWidth and y >= 0 and y < t.trnHeight:
WindowCoords(wx, wy, windowSize) ==
  {c \in ((wx - windowSize)..(wx + windowSize - 1)) \X
          ((wy - windowSize)..(wy + windowSize - 1)) :
     c[1] >= 0 /\ c[1] < trnWidth /\ c[2] >= 0 /\ c[2] < trnHeight}

\* ... in the order they are appended: by x, then by y.
WindowCells(wx, wy, windowSize) ==
  LET keys == SortedSeq({c[1] * trnHeight + c[2] :
                           c \in WindowCoords(wx, wy, windowSize)})
  IN  [k \in DOMAIN keys |-> <<keys[k] \div trnHeight, keys[k] % trnHeight>>]

\* A variant of TRNSDRIndices that keeps the first returned index only.
TRNSDRIndices_First(indices) == {indices[1]}

\* trnSDRIndices = list(trnSDRIndices.union(set(indices))), trnSDRIndices
\* being set() before: the cell indices learnL6Pattern returned, as a set.
TRNSDRIndices(indices) == Range(indices)

\* The number of locations whose L6 SDR has been learned.
LocationsTrained == Cardinality(PatternsLearned)

\* The thresholds of the trained instance: TRN threshold 2 admits only the
\* exact L6 SDR; relay threshold 9 is the test's, 4 the size of the TRN SDRs
\* the training produces.
WindowThresholdPairs == {<<2, 4>>, <<2, 9>>}

InitWindow ==
  /\ \E t \in WindowThresholdPairs :
       Construct(TrainedGridSize, TrainedGridSize,
                 TrainedGridSize * TrainedGridSize + 1, t[1], t[2])
  /\ run = SingleRun

\* Every location has been trained.
TrainingDone ==
  /\ LocationsTrained = trnWidth * trnHeight
  /\ lastCall.op # "learnL6Pattern"

NextWindow ==
  \/ /\ lastCall.op \in {"init", "learnTRNPatternOnRelayCells"}
     /\ LocationsTrained < trnWidth * trnHeight
     /\ LET wx == LocationsTrained % trnWidth
            wy == LocationsTrained \div trnWidth
        IN  learnL6Pattern(LocationSDR(wx, wy), WindowCells(wx, wy, WindowSize))
     /\ UNCHANGED run
  \/ /\ lastCall.op = "learnL6Pattern"
     /\ LET wx == (LocationsTrained - 1) % trnWidth
            wy == (LocationsTrained - 1) \div trnWidth
        IN  learnTRNPatternOnRelayCells(TRNSDRIndices(lastCall.retCells),
                                        <<wx, wy>>,
                                        WindowCells(wx, wy, WindowSize))
     /\ UNCHANGED run
  \/ TrainingDone /\ reset /\ UNCHANGED run
  \/ /\ TrainingDone
     /\ \E c \in TRNCoords : deInactivateCells(LocationSDR(c[1], c[2]))
     /\ UNCHANGED run

SpecWindow == InitWindow /\ [][NextWindow]_vars

(***************************************************************************)
(* The six index mappings, applied to every coordinate and every index of  *)
(* layers of every shape up to MaxIndexedSize x MaxIndexedSize.            *)
(***************************************************************************)
InitIndex ==
  /\ \E w, h \in 1..MaxIndexedSize, t \in ThresholdPairs :
       Construct(w, h, L6Cells, t[1], t[2])
  /\ run = SingleRun

\* A call that reads the shape and changes no field.
PureCall(call) ==
  /\ lastCall' = call
  /\ UNCHANGED <<shapeVars, thresholdVars, storeVars, phase1Vars,
                 burstReadyCells, phase2Vars, historyVars, run>>

NextIndex ==
  \/ \E c \in TRNCoords :
       PureCall([NoCall EXCEPT !.op = "trnCellIndex", !.cells = <<c>>,
                               !.retCells = <<trnCellIndex(c)>>])
  \/ \E c \in RelayCoords :
       PureCall([NoCall EXCEPT !.op = "relayCellIndex", !.cells = <<c>>,
                               !.retCells = <<relayCellIndex(c)>>])
  \/ \E c \in FFCoords :
       PureCall([NoCall EXCEPT !.op = "ffCellIndex", !.cells = <<c>>,
                               !.retCells = <<ffCellIndex(c)>>])
  \/ \E i \in 0..(trnWidth * trnHeight - 1), division \in PythonDivisions :
       PureCall([NoCall EXCEPT !.op = "trnIndextoCoord", !.index = <<i>>,
                               !.division = division,
                               !.retCoord = trnIndextoCoord(i, division)])
  \/ \E i \in 0..(relayWidth * relayHeight - 1), division \in PythonDivisions :
       PureCall([NoCall EXCEPT !.op = "relayIndextoCoord", !.index = <<i>>,
                               !.division = division,
                               !.retCoord = relayIndextoCoord(i, division)])
  \/ \E i \in 0..(inputWidth * inputHeight - 1), division \in PythonDivisions :
       PureCall([NoCall EXCEPT !.op = "ffIndextoCoord", !.index = <<i>>,
                               !.division = division,
                               !.retCoord = ffIndextoCoord(i, division)])

  \/ \E i \in (-1)..relayWidth, j \in (-1)..relayHeight :
       PureCall([NoCall EXCEPT !.op = "_preSynapticTRNCells",
                               !.cells = <<(<<i, j>>)>>,
                               !.retCells = preSynapticTRNCells(i, j)])
  \/ \E i \in (-1)..relayWidth, j \in (-1)..relayHeight :
       PureCall([NoCall EXCEPT !.op = "_preSynapticFFCells",
                               !.cells = <<(<<i, j>>)>>,
                               !.retCells = preSynapticFFCellList(i, j)])

SpecIndex == InitIndex /\ [][NextIndex]_vars

(***************************************************************************)
(* Inference cycles.  After the training of SpecTrain, deInactivateCells,  *)
(* computeFeedForwardActivity and reset are called in any order; run.steps *)
(* lists the L6 inputs of the deInactivateCells calls made since the last  *)
(* reset (or since construction).                                          *)
(***************************************************************************)
\* deInactivateCells calls followed between two resets
MaxCallsPerCycle == 3
CycleThresholdPairs == {<<1, 1>>, <<2, 1>>}
CycleRun == [phase |-> "cycle", steps |-> <<>>, done |-> 0]

InitCycle ==
  /\ \E t \in CycleThresholdPairs :
       Construct(GridWidth, GridHeight, L6Cells, t[1], t[2])
  /\ run = CycleRun

\* Both patterns and their TRN SDRs have been learned.
CycleTrained ==
  \/ /\ lastCall.op = "learnTRNPatternOnRelayCells"
     /\ Cardinality(PatternsLearned) = 2
  \/ lastCall.op \in {"reset", "deInactivateCells", "computeFeedForwardActivity"}

NextCycle ==
  \/ /\ \/ lastCall.op = "init"
        \/ /\ lastCall.op = "learnTRNPatternOnRelayCells"
           /\ Cardinality(PatternsLearned) < 2
     /\ \E p \in TrainPatterns \ PatternsLearned, cells \in TrainTRNLists :
          learnL6Pattern(p, cells)
     /\ UNCHANGED run
  \/ /\ lastCall.op = "learnL6Pattern"
     /\ \E c \in FFLearnCoords, cells \in TrainRelayLists :
          learnTRNPatternOnRelayCells(Range(lastCall.retCells), c, cells)
     /\ UNCHANGED run
  \/ /\ CycleTrained
     /\ reset
     /\ run' = [run EXCEPT !.steps = <<>>]
  \/ /\ CycleTrained
     /\ Len(run.steps) < MaxCallsPerCycle
     /\ \E l6Input \in PatternsLearned :
          /\ deInactivateCells(l6Input)
          /\ run' = [run EXCEPT !.steps = Append(@, l6Input)]
  \/ /\ CycleTrained
     /\ \E ff \in FFGrids, tonicLevel \in TwiceTonicLevels :
          computeFeedForwardActivity(ff, tonicLevel)
     /\ UNCHANGED run

SpecCycle == InitCycle /\ [][NextCycle]_vars

(***************************************************************************)
(* thalamus_utils.inferThalamus(t, l6Input, ffInput) on a trained          *)
(* instance.  The function makes three calls on t, t.reset(),              *)
(* t.deInactivateCells(l6Input) and                                        *)
(* t.computeFeedForwardActivity(ffInput), and returns the grid of the      *)
(* third.  run.done counts the calls it has made, run.steps holds its two  *)
(* arguments and the cells the mask marked when it was entered; while it   *)
(* runs, no other call is made on t.  Before and between inferThalamus     *)
(* calls, deInactivateCells and computeFeedForwardActivity are called      *)
(* directly.                                                               *)
(***************************************************************************)
InferIdle == [phase |-> "idle", steps |-> <<>>, done |-> 0]

InitInfer ==
  /\ \E t \in CycleThresholdPairs :
       Construct(GridWidth, GridHeight, L6Cells, t[1], t[2])
  /\ run = InferIdle

\* The training is complete and no inferThalamus call is under way.
InferReady ==
  /\ run.phase \in {"idle", "returned"}
  /\ \/ /\ lastCall.op = "learnTRNPatternOnRelayCells"
        /\ Cardinality(PatternsLearned) = 2
     \/ lastCall.op \in {"reset", "deInactivateCells", "computeFeedForwardActivity"}

inferThalamus_reset(l6Input, ffInput) ==
  /\ reset
  /\ run' = [phase |-> "inferThalamus",
             steps |-> <<l6Input, ffInput, MaskCells>>, done |-> 1]

inferThalamus_deInactivateCells ==
  /\ run.phase = "inferThalamus"
  /\ run.done = 1
  /\ deInactivateCells(run.steps[1])
  /\ run' = [run EXCEPT !.done = 2]

inferThalamus_computeFeedForwardActivity ==
  /\ run.phase = "inferThalamus"
  /\ run.done = 2
  /\ computeFeedForwardActivity(run.steps[2], DefaultTonicLevel)
  /\ run' = [run EXCEPT !.phase = "returned", !.done = 3]

NextInfer ==
  \/ /\ \/ lastCall.op = "init"
        \/ /\ lastCall.op = "learnTRNPatternOnRelayCells"
           /\ Cardinality(PatternsLearned) < 2
     /\ \E p \in TrainPatterns \ PatternsLearned, cells \in TrainTRNLists :
          learnL6Pattern(p, cells)
     /\ UNCHANGED run
  \/ /\ lastCall.op = "learnL6Pattern"
     /\ \E c \in FFLearnCoords, cells \in TrainRelayLists :
          learnTRNPatternOnRelayCells(Range(lastCall.retCells), c, cells)
     /\ UNCHANGED run
  \/ /\ InferReady
     /\ \E l6Input \in PatternsLearned : deInactivateCells(l6Input)
     /\ run' = InferIdle
  \/ /\ InferReady
     /\ \E ff \in FFGrids, tonicLevel \in TwiceTonicLevels :
          computeFeedForwardActivity(ff, tonicLevel)
     /\ run' = InferIdle
  \/ /\ InferReady
     /\ \E l6Input \in PatternsLearned, ffInput \in FFGrids :
          inferThalamus_reset(l6Input, ffInput)
  \/ inferThalamus_deInactivateCells
  \/ inferThalamus_computeFeedForwardActivity

SpecInfer == InitInfer /\ [][NextInfer]_vars

(***************************************************************************)
(* _initializeTRNToRelayCellConnections called on an instance, before,     *)
(* between or after learn calls.  run.done counts the calls of it and      *)
(* run.steps holds, per call, the number of TRN->Relay segments the store  *)
(* held when the call was made.                                            *)
(***************************************************************************)
\* calls of _initializeTRNToRelayCellConnections followed
MaxConnectCalls == 2
ConnectRun == [phase |-> "connect", steps |-> <<>>, done |-> 0]

InitConnect ==
  /\ \E w, h \in GridWidth..MaxIndexedSize, t \in ThresholdPairs :
       Construct(w, h, L6Cells, t[1], t[2])
  /\ run = ConnectRun

NextConnect ==
  \/ \E p \in L6Patterns, cells \in CellLists :
       /\ HasRoom(trnConnections, Len(cells))
       /\ learnL6Pattern(p, cells)
       /\ UNCHANGED run
  \/ \E sdr \in TRNSDRs, c \in FFLearnCoords, cells \in CellLists :
       /\ HasRoom(relayFFSegments, Len(cells))
       /\ learnTRNPatternOnRelayCells(sdr, c, cells)
       /\ UNCHANGED run
  \/ /\ run.done < MaxConnectCalls
     /\ initializeTRNToRelayCellConnections
     /\ run' = [run EXCEPT !.steps = Append(@, Len(relayTRNSegments)),
                           !.done = @ + 1]

SpecConnect == InitConnect /\ [][NextConnect]_vars

(***************************************************************************)
(* Helpers of the properties.                                              *)
(***************************************************************************)
\* The number of entries of a history that satisfy nothing but "coord = c".
TimesListed(history, c) ==
  Cardinality({k \in DOMAIN history : history[k].coord = c})

(***************************************************************************)
(* C1.  The TRN->Relay store and the FeedForward->Relay store stay paired: *)
(* they hold the same number of segments, segment i has the same owning    *)
(* relay cell in both, every learnTRNPatternOnRelayCells call got the same *)
(* segment ids from both stores, and its pairing assertion never failed.   *)
(***************************************************************************)
C1_SegmentPairing ==
  /\ nSegments(relayTRNSegments) = nSegments(relayFFSegments)
  /\ \A i \in 1..Len(relayTRNSegments) :
       i \in 1..Len(relayFFSegments)
         /\ relayTRNSegments[i].cell = relayFFSegments[i].cell
  /\ \A k \in DOMAIN relayLearned :
       relayLearned[k].trnSegment = relayLearned[k].ffSegment
  /\ lastCall.err # "AssertionError"

\* Two learnTRNPatternOnRelayCells calls have run, the second after an
\* interleaved learnL6Pattern left the L6->TRN store with a different size.
C1_Witness ==
  /\ lastCall.op = "learnTRNPatternOnRelayCells"
  /\ Len(relayLearned) = 2
  /\ relayLearned[1].sdr # relayLearned[2].sdr
  /\ Len(trnConnections) = 1
  /\ ffDefined

(***************************************************************************)
(* C2.  Every segment pair created by learnTRNPatternOnRelayCells(         *)
(* trnSDRIndices, ffCoord, cells) keeps, now and after any later call: on  *)
(* the FeedForward->Relay segment exactly one synapse, onto                *)
(* ffCoord.y * inputWidth + ffCoord.x; on the TRN->Relay segment synapses  *)
(* onto exactly the set trnSDRIndices.                                     *)
(***************************************************************************)
C2_PairSynapses ==
  \A k \in DOMAIN relayLearned :
    LET e == relayLearned[k]
    IN  /\ e.ffSegment + 1 \in DOMAIN relayFFSegments
        /\ e.trnSegment + 1 \in DOMAIN relayTRNSegments
        /\ Cardinality(relayFFSegments[e.ffSegment + 1].syn) = 1
        /\ rowNonZeros(relayFFSegments, e.ffSegment) =
             {e.ffCoord[2] * inputWidth + e.ffCoord[1]}
        /\ rowNonZeros(relayTRNSegments, e.trnSegment) = e.sdr

\* Two calls with different TRN SDRs have created one pair each.
C2_Witness ==
  /\ Len(relayLearned) = 2
  /\ relayLearned[1].sdr = {1, 2}
  /\ relayLearned[2].sdr = {1}
  /\ relayLearned[1].trnSegment # relayLearned[2].trnSegment

(***************************************************************************)
(* C3.  learnL6Pattern returns the linear indices y * trnWidth + x of      *)
(* cellsToLearnOn, in input order and with the same length; each listed    *)
(* coordinate, also one listed twice, got a segment of its own on that     *)
(* cell: the newest segments of the L6->TRN store are owned by the         *)
(* returned cells, in order.                                               *)
(***************************************************************************)
C3_LearnL6Return ==
  lastCall.op = "learnL6Pattern" =>
    LET cells == lastCall.cells
        ret == lastCall.retCells
        n == Len(cells)
    IN  /\ Len(ret) = n
        /\ \A k \in 1..n : ret[k] = cells[k][2] * trnWidth + cells[k][1]
        /\ Len(trnConnections) >= n
        /\ \A k \in 1..n :
             trnConnections[Len(trnConnections) - n + k].cell = ret[k]
        /\ \A k \in 1..n :
             getSegmentCount(trnConnections, ret[k]) >=
               Cardinality({j \in 1..n : cells[j] = cells[k]})

\* A call that lists the coordinate (1, 0) twice has returned.
C3_Witness ==
  /\ lastCall.op = "learnL6Pattern"
  /\ lastCall.cells = <<(<<1, 0>>), (<<1, 0>>)>>
  /\ lastCall.retCells = <<1, 1>>

(***************************************************************************)
(* C4.  Segment accounting: each store holds as many segments as           *)
(* coordinates were passed to its learn call in total, each cell owns as   *)
(* many segments as the number of times its coordinate was listed, and a   *)
(* cell never listed owns none.                                            *)
(***************************************************************************)
C4_SegmentAccounting ==
  /\ nSegments(trnConnections) = Len(trnLearned)
  /\ \A c \in TRNCoords :
       getSegmentCount(trnConnections, c[2] * trnWidth + c[1]) =
         TimesListed(trnLearned, c)
  /\ nSegments(relayTRNSegments) = Len(relayLearned)
  /\ nSegments(relayFFSegments) = Len(relayLearned)
  /\ \A c \in RelayCoords :
       /\ getSegmentCount(relayTRNSegments, c[2] * relayWidth + c[1]) =
            TimesListed(relayLearned, c)
       /\ getSegmentCount(relayFFSegments, c[2] * relayWidth + c[1]) =
            TimesListed(relayLearned, c)

\* One TRN cell was listed twice, by two different calls, and one relay cell
\* twice by one call.
C4_Witness ==
  /\ Len(trnLearned) = 2
  /\ trnLearned[1].coord = trnLearned[2].coord
  /\ trnLearned[1].l6 # trnLearned[2].l6
  /\ Len(relayLearned) = 2
  /\ relayLearned[1].coord = relayLearned[2].coord
  /\ getSegmentCount(relayFFSegments, 2) = 2
  /\ getSegmentCount(trnConnections, 0) = 0

(***************************************************************************)
(* C5.  After deInactivateCells(l6Input) the active TRN segments are       *)
(* exactly the L6->TRN segments whose pattern shares at least trnThreshold *)
(* bits with l6Input, and the active TRN cells form a set: a cell that     *)
(* owns several active segments is listed once, and adds at most 1 to the  *)
(* overlap of a TRN->Relay segment.                                        *)
(***************************************************************************)
C5_ActiveTRNCellsFormSet ==
  lastCall.op = "deInactivateCells" =>
    /\ Range(activeTRNSegments) =
         {i - 1 : i \in {j \in DOMAIN trnConnections :
            Cardinality(rowNonZeros(trnConnections, j - 1) \cap lastCall.l6)
              >= trnActivationThreshold}}
    /\ \A j, k \in DOMAIN activeTRNCellIndices :
         j # k => activeTRNCellIndices[j] # activeTRNCellIndices[k]
    /\ \A i \in DOMAIN relayTRNSegments :
         relayTRNSegmentOverlaps[i] =
           Cardinality(rowNonZeros(relayTRNSegments, i - 1)
                         \cap Range(activeTRNCellIndices))

(***************************************************************************)
(* C6.  After deInactivateCells(l6Input) the de-inactivated relay segments *)
(* are exactly the TRN->Relay segments with at least relayThreshold        *)
(* synapses onto active TRN cells, listed in increasing order, and         *)
(* burstReadyCellIndices holds the owning relay cell of each of them.      *)
(***************************************************************************)
C6_ActiveRelaySegments ==
  lastCall.op = "deInactivateCells" =>
    /\ Range(activeRelaySegments) =
         {i - 1 : i \in {j \in DOMAIN relayTRNSegments :
            Cardinality(rowNonZeros(relayTRNSegments, j - 1)
                          \cap Range(activeTRNCellIndices))
              >= relayTRNSegmentThreshold}}
    /\ \A j, k \in DOMAIN activeRelaySegments :
         j < k => activeRelaySegments[j] < activeRelaySegments[k]
    /\ Len(burstReadyCellIndices) = Len(activeRelaySegments)
    /\ \A k \in DOMAIN activeRelaySegments :
         burstReadyCellIndices[k] =
           relayTRNSegments[activeRelaySegments[k] + 1].cell

\* A call after which one TRN->Relay segment meets the threshold exactly and
\* is active, and another one, with no synapse onto an active TRN cell, is not.
C6_Witness ==
  /\ lastCall.op = "deInactivateCells"
  /\ Len(relayTRNSegments) = 2
  /\ relayTRNSegmentOverlaps = <<0, 1>>
  /\ relayTRNSegmentThreshold = 1
  /\ activeRelaySegments = <<1>>
  /\ Len(activeTRNCellIndices) = 1

(***************************************************************************)
(* C7.  As claimed: after every deInactivateCells call the burst-ready     *)
(* mask is 1 for exactly the relay cells that call found de-inactivated    *)
(* and 0 for every other relay cell.                                       *)
(***************************************************************************)
C7_MaskIsThisCallsCells ==
  lastCall.op = "deInactivateCells" => MaskCells = Range(burstReadyCellIndices)

(***************************************************************************)
(* C7, amended.  A deInactivateCells call sets the mask to 1 for the relay *)
(* cells it finds de-inactivated and leaves every other entry as it was:   *)
(* the cells marked after the call are those marked before it together     *)
(* with the cells the call found, so they are exactly the call's cells     *)
(* when the mask was all zero before (directly after reset or              *)
(* construction).  Every entry stays 0 or 1.                               *)
(***************************************************************************)
C7_MaskAccumulates ==
  [][lastCall'.op = "deInactivateCells" =>
       /\ MaskCells' = MaskCells \cup Range(burstReadyCellIndices')
       /\ \A p \in DOMAIN burstReadyCells' : burstReadyCells'[p] \in {0, 1}
       /\ (MaskCells = {} => MaskCells' = Range(burstReadyCellIndices'))]_vars

\* After a call that found relay cell 2 only, the mask still also marks
\* relay cell 1, found by an earlier call.
C7_Witness ==
  /\ lastCall.op = "deInactivateCells"
  /\ Range(burstReadyCellIndices) = {2}
  /\ MaskCells = {1, 2}

(***************************************************************************)
(* C9.  The grid computeFeedForwardActivity returns holds 0 for every      *)
(* relay cell whose feed forward entry is 0, whatever its burst-ready mask *)
(* entry, and exactly tonicLevel for every relay cell whose feed forward   *)
(* entry is 1 and whose mask entry is 0.                                   *)
(***************************************************************************)
C9_SilentAndTonic ==
  (lastCall.op = "computeFeedForwardActivity" /\ lastCall.err = "none") =>
    /\ DOMAIN lastCall.retGrid = RelayPositions
    /\ \A p \in RelayPositions :
         /\ lastCall.ff[p] = 0 => lastCall.retGrid[p] = 0
         /\ (lastCall.ff[p] = 1 /\ burstReadyCells[p] = 0) =>
              lastCall.retGrid[p] = lastCall.tonic

\* A returned grid with a silent cell that is burst-ready and a tonic cell.
C9_Witness ==
  /\ lastCall.op = "computeFeedForwardActivity"
  /\ lastCall.err = "none"
  /\ \E p \in RelayPositions : lastCall.ff[p] = 0 /\ burstReadyCells[p] = 1
  /\ \E p \in RelayPositions :
       lastCall.ff[p] = 1 /\ burstReadyCells[p] = 0 /\ lastCall.retGrid[p] = 5

(***************************************************************************)
(* C10.  A relay cell that is burst-ready and has feed forward input gets  *)
(* output exactly 1 (10 tenths) from computeFeedForwardActivity, whatever  *)
(* tonicLevel is.                                                          *)
(***************************************************************************)
C10_BurstIsOne ==
  (lastCall.op = "computeFeedForwardActivity" /\ lastCall.err = "none") =>
    \A p \in RelayPositions :
      (lastCall.ff[p] = 1 /\ burstReadyCells[p] = 1) =>
        lastCall.retGrid[p] = BurstUnit

(***************************************************************************)
(* C8.  Two disjoint L6 patterns, each with at least trnThreshold bits,    *)
(* have been learned on two disjoint sets of TRN cells, each with at least *)
(* relayThreshold cells, and each resulting TRN SDR on its own relay       *)
(* cells.  Then deInactivateCells on one of the patterns, called directly  *)
(* after reset, marks burst-ready exactly the relay cells trained on that  *)
(* pattern's TRN SDR: no relay cell trained only on the other pattern.     *)
(***************************************************************************)
\* The TRN SDR of a learned pattern: the cells it was learned on.
TRNSDROf(p) ==
  {trnLearned[k].coord[2] * trnWidth + trnLearned[k].coord[1] :
     k \in {j \in DOMAIN trnLearned : trnLearned[j].l6 = p}}

\* The relay cells trained on a TRN SDR.
RelayCellsTrainedOn(sdr) ==
  {relayLearned[k].coord[2] * relayWidth + relayLearned[k].coord[1] :
     k \in {j \in DOMAIN relayLearned : relayLearned[j].sdr = sdr}}

\* The training the claim supposes.
TwoDisjointPatternsTrained ==
  /\ Cardinality(PatternsLearned) = 2
  /\ \A p, q \in PatternsLearned :
       p # q => (p \cap q = {} /\ TRNSDROf(p) \cap TRNSDROf(q) = {})
  /\ \A p \in PatternsLearned :
       /\ Cardinality(p) >= trnActivationThreshold
       /\ Cardinality(TRNSDROf(p)) >= relayTRNSegmentThreshold
  /\ \A k \in DOMAIN relayLearned :
       \E p \in PatternsLearned : relayLearned[k].sdr = TRNSDROf(p)

C8_TrainedCellsBurstReady ==
  [][(/\ lastCall.op = "reset"
      /\ lastCall'.op = "deInactivateCells"
      /\ lastCall'.l6 \in PatternsLearned
      /\ TwoDisjointPatternsTrained)
     => /\ MaskCells' = RelayCellsTrainedOn(TRNSDROf(lastCall'.l6))
        /\ Range(burstReadyCellIndices') = MaskCells']_vars

\* After such a training with both thresholds 2, a call has marked the relay
\* cells of its own pattern and left a relay cell of the other pattern unmarked.
C8_Witness ==
  /\ lastCall.op = "deInactivateCells"
  /\ TwoDisjointPatternsTrained
  /\ trnActivationThreshold = 2
  /\ relayTRNSegmentThreshold = 2
  /\ MaskCells = RelayCellsTrainedOn(TRNSDROf(lastCall.l6))
  /\ MaskCells # {}
  /\ \E q \in PatternsLearned :
       /\ q # lastCall.l6
       /\ RelayCellsTrainedOn(TRNSDROf(q)) \ MaskCells # {}
  /\ Len(trnOverlaps) = 4

(***************************************************************************)
(* C11.  As claimed: in the grid computeFeedForwardActivity returns, every *)
(* relay cell with an active feed forward input in its 3x3 fan-in (the     *)
(* neighbourhood of that input, clipped to the grid) has a non-zero        *)
(* output, more than tonic if it is burst-ready and tonic otherwise, and   *)
(* every relay cell with no active input in its fan-in outputs 0.          *)
(***************************************************************************)
C11_NeighbourhoodDriven ==
  (lastCall.op = "computeFeedForwardActivity" /\ lastCall.err = "none") =>
    \A p \in RelayPositions :
      IF \E c \in preSynapticFFCells(p[1], p[2]) : lastCall.ff[c] = 1
      THEN /\ lastCall.retGrid[p] # 0
           /\ burstReadyCells[p] = 0 => lastCall.retGrid[p] = lastCall.tonic
           /\ burstReadyCells[p] = 1 => lastCall.retGrid[p] > lastCall.tonic
      ELSE lastCall.retGrid[p] = 0

(***************************************************************************)
(* C12.  As claimed: after reset() the burst-ready mask is all zero and    *)
(* every transient collection of phase 1 and of phase 2 is empty: TRN      *)
(* overlaps, active TRN segments, active TRN cells, relay overlaps, active *)
(* relay segments, burst-ready cell indices, feed forward overlaps and     *)
(* active feed forward segments.                                           *)
(***************************************************************************)
C12_ResetClearsAll ==
  lastCall.op = "reset" =>
    /\ burstReadyCells = ZeroMask
    /\ trnOverlaps = <<>>
    /\ activeTRNSegments = <<>>
    /\ activeTRNCellIndices = <<>>
    /\ relayTRNSegmentOverlaps = <<>>
    /\ activeRelaySegments = <<>>
    /\ burstReadyCellIndices = <<>>
    /\ ffOverlaps = <<>>
    /\ activeFFSegments = <<>>

(***************************************************************************)
(* C13.  As claimed: setThresholds(trnThreshold, relayThreshold) succeeds  *)
(* and replaces the two thresholds deInactivateCells uses, so that the     *)
(* next deInactivateCells call applies the new ones.  (That it leaves the  *)
(* mask, the transient collections and the stores alone is not in doubt.)  *)
(***************************************************************************)
C13_SetThresholdsReplaces ==
  lastCall.op = "setThresholds" =>
    /\ lastCall.err = "none"
    /\ trnActivationThreshold = lastCall.thresholds[1]
    /\ relayTRNSegmentThreshold = lastCall.thresholds[2]

(***************************************************************************)
(* C14.  For the learned state at hand and every L6 input, lowering        *)
(* trnThreshold or relayThreshold never shrinks the result of              *)
(* deInactivateCells: the active TRN cells and the burst-ready relay cells *)
(* at the lower thresholds include those at the higher thresholds, and the *)
(* two lists are at least as long.  What a deInactivateCells call leaves   *)
(* in activeTRNCellIndices and burstReadyCellIndices is the result at the  *)
(* instance's own thresholds, so it lies between the results at any lower  *)
(* and any higher thresholds.                                              *)
(***************************************************************************)
C14_ThresholdMonotone ==
  /\ \A l6Input \in TrainPatterns :
       \A lo, hi, rlo, rhi \in ComparedThresholds :
         (lo <= hi /\ rlo <= rhi) =>
           /\ Range(ActiveTRNCellsAt(l6Input, hi)) \subseteq
                Range(ActiveTRNCellsAt(l6Input, lo))
           /\ Len(ActiveTRNCellsAt(l6Input, hi)) <=
                Len(ActiveTRNCellsAt(l6Input, lo))
           /\ Range(BurstReadyCellsAt(l6Input, hi, rhi)) \subseteq
                Range(BurstReadyCellsAt(l6Input, lo, rlo))
           /\ Len(BurstReadyCellsAt(l6Input, hi, rhi)) <=
                Len(BurstReadyCellsAt(l6Input, lo, rlo))
  /\ lastCall.op = "deInactivateCells" =>
       /\ activeTRNCellIndices =
            ActiveTRNCellsAt(lastCall.l6, trnActivationThreshold)
       /\ burstReadyCellIndices =
            BurstReadyCellsAt(lastCall.l6, trnActivationThreshold,
                              relayTRNSegmentThreshold)

\* A call with both thresholds 2 has found some TRN cells and some relay
\* cells, and with both thresholds 1 the same input finds strictly more of
\* each.
C14_Witness ==
  /\ lastCall.op = "deInactivateCells"
  /\ trnActivationThreshold = 2
  /\ relayTRNSegmentThreshold = 2
  /\ activeTRNCellIndices # <<>>
  /\ burstReadyCellIndices # <<>>
  /\ Range(activeTRNCellIndices) # Range(ActiveTRNCellsAt(lastCall.l6, 1))
  /\ Range(burstReadyCellIndices) # Range(BurstReadyCellsAt(lastCall.l6, 1, 1))

C16_OutsideCoordinateRejected ==
  /\ (/\ lastCall.op = "learnL6Pattern"
      /\ \E k \in DOMAIN lastCall.cells : lastCall.cells[k] \notin TRNCoords)
       => lastCall.err = "InvalidCoordinate"
  /\ (/\ lastCall.op = "learnTRNPatternOnRelayCells"
      /\ \/ lastCall.ffCoord \notin FFCoords
         \/ \E k \in DOMAIN lastCall.cells : lastCall.cells[k] \notin RelayCoords)
       => lastCall.err = "InvalidCoordinate"
  /\ \A k \in DOMAIN trnLearned : trnLearned[k].coord \in TRNCoords
  /\ \A k \in DOMAIN relayLearned :
       /\ relayLearned[k].coord \in RelayCoords
       /\ relayLearned[k].ffCoord \in FFCoords

(***************************************************************************)
(* C17.  As claimed: computeFeedForwardActivity is total on binary grids   *)
(* of the configured shape: in every reachable state and for every such    *)
(* grid, also one with a single active entry, it raises no error and       *)
(* returns a grid of the relay layer's shape.                              *)
(***************************************************************************)
C17_FeedForwardTotal ==
  lastCall.op = "computeFeedForwardActivity" =>
    /\ lastCall.err = "none"
    /\ DOMAIN lastCall.retGrid = RelayPositions

(***************************************************************************)
(* C18.  As claimed: trainThalamus with windowSize = 1 trains, for every   *)
(* interior location (wx, wy), exactly the 9 TRN cells of the 3x3 window   *)
(* centred on it, and 9 relay cells, on that location's pattern, and       *)
(* deInactivateCells on the pattern of a trained interior location, after  *)
(* reset and with thresholds that admit only exact matches, finds exactly  *)
(* 9 active TRN cells and 9 burst-ready relay cells.                       *)
(***************************************************************************)
C18_NineCellsPerLocation ==
  \A c \in TRNCoords :
    (/\ c[1] >= 1 /\ c[1] <= trnWidth - 2
     /\ c[2] >= 1 /\ c[2] <= trnHeight - 2) =>
      /\ (/\ LocationSDR(c[1], c[2]) \in PatternsLearned
          /\ lastCall.op # "learnL6Pattern") =>
           /\ {trnLearned[k].coord :
                 k \in {j \in DOMAIN trnLearned :
                          trnLearned[j].l6 = LocationSDR(c[1], c[2])}} =
                ((c[1] - 1)..(c[1] + 1)) \X ((c[2] - 1)..(c[2] + 1))
           /\ Cardinality({k \in DOMAIN relayLearned :
                             relayLearned[k].ffCoord = c}) = 9
      /\ (/\ lastCall.op = "deInactivateCells"
          /\ lastCall.l6 = LocationSDR(c[1], c[2])) =>
           /\ Len(activeTRNCellIndices) = 9
           /\ Len(burstReadyCellIndices) = 9

C20_InferenceLeavesStores ==
  [][lastCall'.op \in {"deInactivateCells", "computeFeedForwardActivity", "reset"}
       => /\ nSegments(trnConnections') = nSegments(trnConnections)
          /\ nSegments(relayTRNSegments') = nSegments(relayTRNSegments)
          /\ nSegments(relayFFSegments') = nSegments(relayFFSegments)
          /\ \A i \in DOMAIN trnConnections :
               /\ trnConnections'[i].cell = trnConnections[i].cell
               /\ trnConnections'[i].syn = trnConnections[i].syn
          /\ \A i \in DOMAIN relayTRNSegments :
               /\ relayTRNSegments'[i].cell = relayTRNSegments[i].cell
               /\ relayTRNSegments'[i].syn = relayTRNSegments[i].syn
          /\ \A i \in DOMAIN relayFFSegments :
               /\ relayFFSegments'[i].cell = relayFFSegments[i].cell
               /\ relayFFSegments'[i].syn = relayFFSegments[i].syn]_vars

\* After learning in all three stores, a deInactivateCells call has marked a
\* relay cell and a computeFeedForwardActivity call has scored the two
\* FeedForward->Relay segments and returned; the stores still hold their
\* segments and synapses.
C20_Witness ==
  /\ lastCall.op = "computeFeedForwardActivity"
  /\ lastCall.err = "none"
  /\ MaskCells # {}
  /\ burstReadyCellIndices # <<>>
  /\ Len(ffOverlaps) = 2
  /\ Len(trnConnections) = 2
  /\ Len(relayTRNSegments) = 2
  /\ \A i \in DOMAIN relayFFSegments : relayFFSegments[i].syn # {}
  /\ \A i \in DOMAIN trnConnections : Cardinality(trnConnections[i].syn) = 2

(***************************************************************************)
(* C21.  The burst-ready mask and the phase-1 collections are changed by   *)
(* deInactivateCells and reset only: every other call, learnL6Pattern,     *)
(* learnTRNPatternOnRelayCells and computeFeedForwardActivity among them,  *)
(* leaves the mask, the TRN overlaps, the active TRN segments and cells,   *)
(* the relay overlaps, the active relay segments and the burst-ready cell  *)
(* indices as they were, and computeFeedForwardActivity leaves the grid it *)
(* was passed as it was.                                                   *)
(***************************************************************************)
C21_TransientFrame ==
  [][/\ lastCall'.op \notin {"deInactivateCells", "reset"} =>
          /\ burstReadyCells' = burstReadyCells
          /\ trnOverlaps' = trnOverlaps
          /\ activeTRNSegments' = activeTRNSegments
          /\ activeTRNCellIndices' = activeTRNCellIndices
          /\ relayTRNSegmentOverlaps' = relayTRNSegmentOverlaps
          /\ activeRelaySegments' = activeRelaySegments
          /\ burstReadyCellIndices' = burstReadyCellIndices
     /\ lastCall'.op = "computeFeedForwardActivity" =>
          lastCall'.ffAfter = lastCall'.ff]_vars

\* With a relay cell marked and the phase-1 collections filled, a
\* computeFeedForwardActivity call has returned a grid that differs from its
\* input, and a learn call has run after deInactivateCells.
C21_Witness ==
  /\ lastCall.op = "computeFeedForwardActivity"
  /\ lastCall.err = "none"
  /\ lastCall.retGrid # lastCall.ff
  /\ lastCall.ffAfter = lastCall.ff
  /\ MaskCells # {}
  /\ activeTRNSegments # <<>>
  /\ burstReadyCellIndices # <<>>
  /\ Len(trnConnections) > Len(trnOverlaps)

(***************************************************************************)
(* C22.  Segments are append-only: across every step no store loses a      *)
(* segment, and every segment that existed before the step has the same    *)
(* owning cell and the same synapses after it.  So a segment's synapses    *)
(* are those grown by the learn call that created it, which the histories  *)
(* record: the pattern for an L6->TRN segment, the TRN SDR for a           *)
(* TRN->Relay segment, the index of ffCoord for a FeedForward->Relay one.  *)
(***************************************************************************)
C22_SegmentsAppendOnly ==
  [][/\ Len(trnConnections') >= Len(trnConnections)
     /\ Len(relayTRNSegments') >= Len(relayTRNSegments)
     /\ Len(relayFFSegments') >= Len(relayFFSegments)
     /\ \A i \in DOMAIN trnConnections : trnConnections'[i] = trnConnections[i]
     /\ \A i \in DOMAIN relayTRNSegments :
          relayTRNSegments'[i] = relayTRNSegments[i]
     /\ \A i \in DOMAIN relayFFSegments :
          relayFFSegments'[i] = relayFFSegments[i]
     /\ \A i \in DOMAIN trnConnections' :
          /\ i \in DOMAIN trnLearned'
          /\ rowNonZeros(trnConnections', i - 1) = trnLearned'[i].l6
          /\ trnConnections'[i].cell = trnCellIndex(trnLearned'[i].coord)
     /\ \A i \in DOMAIN relayTRNSegments' :
          /\ i \in DOMAIN relayLearned'
          /\ rowNonZeros(relayTRNSegments', i - 1) = relayLearned'[i].sdr]_vars

\* A second learn call of each kind has run, with a pattern other than the
\* first call's, and the first segments still hold the first patterns.
C22_Witness ==
  /\ Len(trnConnections) = 2
  /\ Len(relayTRNSegments) = 2
  /\ trnLearned[1].l6 # trnLearned[2].l6
  /\ relayLearned[1].sdr # relayLearned[2].sdr
  /\ rowNonZeros(trnConnections, 0) = trnLearned[1].l6
  /\ rowNonZeros(relayTRNSegments, 0) = relayLearned[1].sdr
  /\ lastCall.op = "reset"

(***************************************************************************)
(* C23.  After a computeFeedForwardActivity(feedForwardInput) that         *)
(* returned, the active feed-forward segments are exactly the              *)
(* FeedForward->Relay segments with a synapse onto the linear index of a   *)
(* non-zero entry of feedForwardInput, where the active index set holds    *)
(* the index of every non-zero entry and of no entry that is 0.            *)
(***************************************************************************)
C23_ActiveFFSegmentsRecognise ==
  (lastCall.op = "computeFeedForwardActivity" /\ lastCall.err = "none") =>
    LET nonZeroIndices ==
          {ffCellIndex(p) : p \in {q \in DOMAIN lastCall.ff : lastCall.ff[q] # 0}}
    IN  Range(activeFFSegments) =
          {i - 1 : i \in {j \in DOMAIN relayFFSegments :
                      rowNonZeros(relayFFSegments, j - 1) \cap nonZeroIndices # {}}}

(***************************************************************************)
(* C24.  After a computeFeedForwardActivity that returned, a relay cell    *)
(* outputs the burst value only if one of its dendrites has both its       *)
(* TRN->Relay segment active and its FeedForward->Relay segment active;    *)
(* it outputs the tonic value if one of its feed-forward segments is       *)
(* active but no dendrite has both; it outputs 0 if none of its            *)
(* feed-forward segments is active.                                        *)
(***************************************************************************)
C24_OutputByDendrite ==
  (lastCall.op = "computeFeedForwardActivity" /\ lastCall.err = "none") =>
    \A c \in RelayCoords :
      LET dendrites == {s \in 0..(nSegments(relayFFSegments) - 1) :
                          relayFFSegments[s + 1].cell = relayCellIndex(c)}
          recognising == dendrites \cap Range(activeFFSegments)
          both == recognising \cap Range(activeRelaySegments)
          out == lastCall.retGrid[c]
      IN  /\ (out = lastCall.tonic + BurstUnit) => both # {}
          /\ (recognising # {} /\ both = {}) => out = lastCall.tonic
          /\ (recognising = {}) => out = 0

(***************************************************************************)
(* C25.  Between two resets the burst-ready mask accumulates: the relay    *)
(* cells whose mask entry is 1 are the union of the burst-ready cells of   *)
(* all deInactivateCells calls since the last reset, while                 *)
(* burstReadyCellIndices and the other transient sets hold the result of   *)
(* the latest call only.  So the cells of burstReadyCellIndices are always *)
(* among the marked cells, and they are all the marked cells when at most  *)
(* one deInactivateCells call has run since the last reset.                *)
(***************************************************************************)
C25_MaskIsUnionSinceReset ==
  LET found(l6Input) ==
        Range(BurstReadyCellsAt(l6Input, trnActivationThreshold,
                                relayTRNSegmentThreshold))
      n == Len(run.steps)
  IN  /\ Range(burstReadyCellIndices) \subseteq MaskCells
      /\ CycleTrained =>
           /\ MaskCells = UNION {found(run.steps[k]) : k \in 1..n}
           /\ n >= 1 =>
                /\ burstReadyCellIndices =
                     BurstReadyCellsAt(run.steps[n], trnActivationThreshold,
                                       relayTRNSegmentThreshold)
                /\ activeTRNCellIndices =
                     ActiveTRNCellsAt(run.steps[n], trnActivationThreshold)
           /\ n <= 1 => MaskCells = Range(burstReadyCellIndices)

\* Three calls since the last reset: the second found other relay cells
\* than the first, and the third, which found the first call's cells again,
\* leaves the mask with more cells than burstReadyCellIndices lists.
C25_Witness ==
  /\ lastCall.op = "deInactivateCells"
  /\ Len(run.steps) = 3
  /\ run.steps[1] # run.steps[2]
  /\ run.steps[3] = run.steps[1]
  /\ burstReadyCellIndices # <<>>
  /\ Range(burstReadyCellIndices) # MaskCells
  /\ MaskCells \ Range(burstReadyCellIndices) =
       Range(BurstReadyCellsAt(run.steps[2], trnActivationThreshold,
                               relayTRNSegmentThreshold))

(***************************************************************************)
(* C26.  Every entry of the burst-ready mask is 0 or 1 in every reachable  *)
(* state: a relay cell with several de-inactivated dendrites, or found by  *)
(* several calls, is marked 1 and not counted.  For a binary feed forward  *)
(* grid, every entry of the grid computeFeedForwardActivity returns is 0,  *)
(* tonicLevel or the one burst value tonicLevel + 1.                       *)
(***************************************************************************)
C26_MaskBooleanOutputThreeValued ==
  /\ \A p \in RelayPositions : burstReadyCells[p] \in {0, 1}
  /\ (lastCall.op = "computeFeedForwardActivity" /\ lastCall.err = "none") =>
       \A p \in RelayPositions :
         lastCall.retGrid[p] \in {0, lastCall.tonic, lastCall.tonic + BurstUnit}

\* Relay cell 2 is listed twice by the latest deInactivateCells call (two
\* of its dendrites were de-inactivated) and the grid then returned holds
\* all three values.
C26_Witness ==
  /\ lastCall.op = "computeFeedForwardActivity"
  /\ lastCall.err = "none"
  /\ Len(burstReadyCellIndices) = 2
  /\ Range(burstReadyCellIndices) = {2}
  /\ FlatEntry(burstReadyCells, 2) = 1
  /\ {lastCall.retGrid[p] : p \in RelayPositions} =
       {0, lastCall.tonic, lastCall.tonic + BurstUnit}

(***************************************************************************)
(* C27.  The mask and the feed forward grid address cells alike: the relay *)
(* cell of coordinate (x, y), whose linear index is y * relayWidth + x, is *)
(* burst-ready (found by a deInactivateCells call since the last reset)    *)
(* exactly when the mask entry at position [x][y] is 1, so that the grid   *)
(* computeFeedForwardActivity returns holds at [x][y] the input entry at   *)
(* [x][y] combined with the burst-ready state of relay cell (x, y).        *)
(***************************************************************************)
C27_MaskAddressesCellsAsGrid ==
  CycleTrained =>
    LET burstReady ==
          UNION {Range(BurstReadyCellsAt(run.steps[k], trnActivationThreshold,
                                         relayTRNSegmentThreshold)) :
                 k \in DOMAIN run.steps}
    IN  \A c \in RelayCoords :
          /\ (relayCellIndex(c) \in burstReady) <=> (burstReadyCells[c] = 1)
          /\ (lastCall.op = "computeFeedForwardActivity" /\ lastCall.err = "none") =>
               lastCall.retGrid[c] =
                 lastCall.ff[c] * lastCall.tonic +
                 (IF relayCellIndex(c) \in burstReady
                    THEN lastCall.ff[c] * BurstUnit ELSE 0)

(***************************************************************************)
(* C28.  inferThalamus(t, l6Input, ffInput) calls reset, then              *)
(* deInactivateCells(l6Input), then computeFeedForwardActivity(ffInput),   *)
(* in that order.  So what it returns (or raises) is a function of the     *)
(* segment stores, the two thresholds and its two inputs alone: the grid   *)
(* ffInput gives at the default tonic level over the mask that marks, from *)
(* all zero, the relay cells l6Input de-inactivates, whatever              *)
(* deInactivateCells, computeFeedForwardActivity or inferThalamus calls    *)
(* were made on t before.                                                  *)
(***************************************************************************)
C28_InferenceFromStoresAndInputs ==
  /\ (run.phase = "inferThalamus" /\ run.done = 1) => lastCall.op = "reset"
  /\ (run.phase = "inferThalamus" /\ run.done = 2) =>
       (lastCall.op = "deInactivateCells" /\ lastCall.l6 = run.steps[1])
  /\ run.phase = "returned" =>
       LET l6Input == run.steps[1]
           ffInput == run.steps[2]
           mask == SetFlatEntries(ZeroMask,
                     BurstReadyCellsAt(l6Input, trnActivationThreshold,
                                       relayTRNSegmentThreshold))
       IN  /\ lastCall.op = "computeFeedForwardActivity"
           /\ lastCall.ff = ffInput
           /\ IF Len(NonzeroFlat(ffInput)) < 2
                THEN lastCall.err = "IndexError"
                ELSE /\ lastCall.err = "none"
                     /\ lastCall.retGrid =
                          RelayOutput(ffInput, mask, DefaultTonicLevel)

\* inferThalamus has returned a grid with a bursting and a tonic entry, and
\* the tonic entry is of a relay cell the mask marked when inferThalamus
\* was entered.
C28_Witness ==
  /\ run.phase = "returned"
  /\ lastCall.err = "none"
  /\ \E p \in RelayPositions :
       lastCall.retGrid[p] = DefaultTonicLevel + BurstUnit
  /\ \E i \in run.steps[3] :
       lastCall.retGrid[<<i \div relayHeight, i % relayHeight>>] =
         DefaultTonicLevel

(***************************************************************************)
(* C29.  _preSynapticTRNCells(i, j) and _preSynapticFFCells(i, j) return a *)
(* list without duplicates of exactly the coordinates (x, y) with          *)
(* |x - i| <= 1 and |y - j| <= 1 inside the presynaptic layer: (i, j)      *)
(* itself is listed when it is in bounds, and in a layer at least two      *)
(* cells wide and high the list has 9 coordinates for an interior cell, 6  *)
(* for a cell on an edge and 4 for a cell in a corner.                     *)
(***************************************************************************)
C29_ThreeByThreeFanIn ==
  lastCall.op \in {"_preSynapticTRNCells", "_preSynapticFFCells"} =>
    LET i == lastCall.cells[1][1]
        j == lastCall.cells[1][2]
        width == IF lastCall.op = "_preSynapticTRNCells"
                   THEN trnWidth ELSE inputWidth
        height == IF lastCall.op = "_preSynapticTRNCells"
                    THEN trnHeight ELSE inputHeight
        list == lastCall.retCells
        inBounds == i \in 0..(width - 1) /\ j \in 0..(height - 1)
        atBorderX == i \in {0, width - 1}
        atBorderY == j \in {0, height - 1}
    IN  /\ \A k, l \in DOMAIN list : list[k] = list[l] => k = l
        /\ Range(list) =
             {c \in (0..(width - 1)) \X (0..(height - 1)) :
                /\ c[1] - i \in {-1, 0, 1}
                /\ c[2] - j \in {-1, 0, 1}}
        /\ inBounds => <<i, j>> \in Range(list)
        /\ (inBounds /\ width >= 2 /\ height >= 2) =>
             Len(list) = IF ~atBorderX /\ ~atBorderY THEN 9
                         ELSE IF atBorderX /\ atBorderY THEN 4 ELSE 6

\* The interior cell of a 3x3 layer has been given its nine TRN cells.
C29_Witness ==
  /\ lastCall.op = "_preSynapticTRNCells"
  /\ trnWidth = 3
  /\ trnHeight = 3
  /\ lastCall.cells = <<(<<1, 1>>)>>
  /\ Len(lastCall.retCells) = 9
  /\ lastCall.retCells[2] = <<0, 1>>

(***************************************************************************)
(* C30.  In trainThalamus every learnTRNPatternOnRelayCells call is given  *)
(* ffCoord = (wx, wy) and, as its TRN pattern, exactly the set of TRN cell *)
(* indices the learnL6Pattern call before it returned for the same         *)
(* location; the TRN window and the relay window of a location hold the    *)
(* same in-bounds coordinates; and a location's two learn calls are both   *)
(* made before any call for the next location.                             *)
(***************************************************************************)
C30_TrainingPairsCallsPerLocation ==
  LET location(k) == <<k % trnWidth, k \div trnWidth>>
      trnCoordsOf(loc) ==
        {trnLearned[k].coord :
           k \in {m \in DOMAIN trnLearned :
                    trnLearned[m].l6 = LocationSDR(loc[1], loc[2])}}
      relayEntriesOf(loc) ==
        {relayLearned[k] :
           k \in {m \in DOMAIN relayLearned : relayLearned[m].ffCoord = loc}}
      paired == IF lastCall.op = "learnL6Pattern"
                  THEN LocationsTrained - 1 ELSE LocationsTrained
  IN  /\ {relayLearned[k].ffCoord : k \in DOMAIN relayLearned} =
           {location(k) : k \in 0..(paired - 1)}
      /\ {trnLearned[k].l6 : k \in DOMAIN trnLearned} =
           {LocationSDR(location(k)[1], location(k)[2]) :
              k \in 0..(LocationsTrained - 1)}
      /\ \A k \in 0..(paired - 1) :
           /\ \A r \in relayEntriesOf(location(k)) :
                r.sdr = {trnCellIndex(c) : c \in trnCoordsOf(location(k))}
           /\ {r.coord : r \in relayEntriesOf(location(k))} =
                trnCoordsOf(location(k))
           /\ trnCoordsOf(location(k)) \subseteq TRNCoords \cap RelayCoords
      /\ \A k, l \in DOMAIN relayLearned :
           k <= l =>
             \E a, b \in 0..(paired - 1) :
               /\ a <= b
               /\ relayLearned[k].ffCoord = location(a)
               /\ relayLearned[l].ffCoord = location(b)

\* The last location of the 3x3 layer has been trained: its four TRN cells
\* are the TRN pattern of its four relay cells.
C30_Witness ==
  /\ lastCall.op = "learnTRNPatternOnRelayCells"
  /\ LocationsTrained = trnWidth * trnHeight
  /\ lastCall.ffCoord = <<trnWidth - 1, trnHeight - 1>>
  /\ Len(lastCall.cells) = 4
  /\ relayLearned[Len(relayLearned)].sdr =
       {trnCellIndex(c) : c \in Range(lastCall.cells)}
  /\ Cardinality(relayLearned[Len(relayLearned)].sdr) = 4

(***************************************************************************)
(* C31.  A call of _initializeTRNToRelayCellConnections appends to the     *)
(* TRN->Relay store, for every relay cell and every TRN cell of the relay  *)
(* cell's clipped 3x3 neighbourhood, exactly one segment owned by the      *)
(* relay cell whose only synapse is onto that TRN cell, and nothing else;  *)
(* it creates no segment in the FeedForward->Relay store.  Once it has     *)
(* run, the two relay stores differ in their segment counts, and every     *)
(* following learnTRNPatternOnRelayCells call (on at least one cell) gets  *)
(* different segment ids from the two stores and fails its pairing         *)
(* assertion.                                                              *)
(***************************************************************************)
C31_InitialConnectionsUnpairStores ==
  LET fanIn == {p \in RelayCoords \X TRNCoords :
                  /\ p[2][1] - p[1][1] \in {-1, 0, 1}
                  /\ p[2][2] - p[1][2] \in {-1, 0, 1}}
      created(b) == (b + 1)..(b + Cardinality(fanIn))
  IN  /\ \A k \in DOMAIN run.steps :
           /\ created(run.steps[k]) \subseteq DOMAIN relayTRNSegments
           /\ \A p \in fanIn :
                Cardinality({i \in created(run.steps[k]) :
                   /\ relayTRNSegments[i].cell = relayCellIndex(p[1])
                   /\ relayTRNSegments[i].syn =
                        {<<trnCellIndex(p[2]), PermOne>>}}) = 1
      /\ Len(run.steps) = run.done
      /\ nSegments(relayFFSegments) = Len(relayLearned)
      /\ nSegments(relayTRNSegments) =
           Len(relayLearned) + run.done * Cardinality(fanIn)
      /\ run.done >= 1 =>
           /\ nSegments(relayTRNSegments) # nSegments(relayFFSegments)
           /\ lastCall.op = "learnTRNPatternOnRelayCells" =>
                /\ lastCall.err = "AssertionError"
                /\ relayLearned[Len(relayLearned)].trnSegment #
                     relayLearned[Len(relayLearned)].ffSegment

\* On a 3x3 layer: a learnTRNPatternOnRelayCells call succeeded, then the
\* 49 initial connections were made (the fourth of relay cell (0, 1), whose
\* index is 3, is onto TRN cell (1, 0), whose index is 1), and a second
\* learn call has failed.
C31_Witness ==
  /\ relayWidth = 3
  /\ relayHeight = 3
  /\ run.done = 1
  /\ run.steps = <<1>>
  /\ Len(relayTRNSegments) = 51
  /\ Len(relayFFSegments) = 2
  /\ relayLearned[1].trnSegment = relayLearned[1].ffSegment
  /\ relayTRNSegments[9] = [cell |-> 3, syn |-> {<<1, PermOne>>}]
  /\ lastCall.op = "learnTRNPatternOnRelayCells"
  /\ lastCall.err = "AssertionError"

====
